---- MODULE Spec2Model ----
(***************************************************************************)
(* TwoPaCo junction enumeration: the VertexEnumeratorImpl constructor      *)
(* (vertexenumerator.h) with its task distributor and its four worker      *)
(* kinds, and the junction position file (junctionpositionapi.h).          *)
(*                                                                         *)
(* Four specifications:                                                    *)
(*   Spec      the constructor: per round Pass 1a (FilterFillerWorker),    *)
(*             Pass 1b (CandidateCheckingWorker), Pass 2                   *)
(*             (CandidateFinalFilteringWorker), TrueBifurcations; then     *)
(*             BifurcationStorage::Init and the Emission stage             *)
(*             (EdgeConstructionWorker) writing through                    *)
(*             JunctionPositionWriter.                                     *)
(*   SpecFile  JunctionPositionWriter followed by JunctionPositionReader   *)
(*             on arbitrary tuples.                                        *)
(*   FairSpec  the constructor on fault-free scenarios, with the fairness  *)
(*             the threads of the program have.                            *)
(*   SpecMerge the insertion of candidate occurences of one k-mer into the *)
(*             OccurenceSet of Pass 2, in any order.                       *)
(*                                                                         *)
(* A DNA string is a sequence of one-character strings.  The Cuckoo        *)
(* filters (an external library) are modelled as exact sets: no false      *)
(* negatives and no false positives.                                       *)
(***************************************************************************)
EXTENDS Integers, Sequences, FiniteSets, TLC

(***************************************************************************)
(* Bounds of the model.                                                    *)
(***************************************************************************)
\* Task::TASK_SIZE scaled down so that one record is cut into several chunks.
TaskSize == 5
\* QUEUE_CAPACITY scaled down so that the distributor meets full queues.
QueueCapacity == 1
\* Largest number of worker threads tried.
MaxThreads == 2
\* Longest record of the exhaustive input family.
MaxLen == 5
\* sizeof(pos_) and sizeof(bifId_) in bytes, scaled down from 4 and 8.
PosBytes == 1
BifBytes == 2
\* SpecFile: longest tuple stream written, and largest chromosome number.
MaxWrites == 2
MaxChr == 2
\* Largest number of rounds tried.
MaxRounds == 2
\* log2 of BINS_COUNT, scaled down from 24, and the largest filterSize tried.
BinsBits == 1
MaxFilterSize == 2
\* Largest count one bin of the histogram holds in the partition specification.
MaxCount == 3
\* SpecMerge: largest number of candidate occurrences of one k-mer.
MaxOccurences == 3

(***************************************************************************)
(* Program constants.                                                      *)
(***************************************************************************)
\* uint64_t currentStubVertexId = verticesCount + 42
StubGap == 42
\* INVALID_VERTEX, the value GetId returns for a k-mer that is not stored
INVALID_VERTEX == -1
\* one byte holds 256 values
ByteBase == 256

(***************************************************************************)
(* Generic helpers on sequences.                                           *)
(***************************************************************************)
Range(s) == {s[i] : i \in 1..Len(s)}

RECURSIVE Pow(_, _)
Pow(b, n) == IF n = 0 THEN 1 ELSE b * Pow(b, n - 1)

Reverse(s) == [i \in 1..Len(s) |-> s[Len(s) + 1 - i]]

\* C++ substr(pos, n) with a 0-based pos
Substr(s, pos, n) == SubSeq(s, pos + 1, pos + n)

\* C++ s[i] with a 0-based index
At(s, i) == s[i + 1]

(***************************************************************************)
(* DnaChar.                                                                *)
(***************************************************************************)
LITERAL == <<"A", "C", "G", "T">>

IsDefinite(ch) == ch \in {"A", "C", "G", "T"}

MakeUpChar(ch) == CASE ch = "A" -> 0 [] ch = "C" -> 1 [] ch = "G" -> 2 [] ch = "T" -> 3 [] OTHER -> 0

ReverseChar(ch) == CASE ch = "A" -> "T" [] ch = "C" -> "G" [] ch = "G" -> "C" [] ch = "T" -> "A" [] OTHER -> ch

ReverseCompliment(s) == [i \in 1..Len(s) |-> ReverseChar(s[Len(s) + 1 - i])]

\* the character code that std::string::compare orders by
CharCode(ch) == CASE ch = "A" -> 65 [] ch = "C" -> 67 [] ch = "G" -> 71 [] ch = "N" -> 78 [] ch = "T" -> 84 [] OTHER -> 0

\* std::string::compare(a, b) > 0 for strings of one length
RECURSIVE StrGreater(_, _)
StrGreater(a, b) ==
    IF a = <<>> \/ b = <<>> THEN Len(a) > Len(b)
    ELSE IF CharCode(Head(a)) # CharCode(Head(b)) THEN CharCode(Head(a)) > CharCode(Head(b))
    ELSE StrGreater(Tail(a), Tail(b))

DefiniteCount(s) == Cardinality({i \in 1..Len(s) : IsDefinite(s[i])})

(***************************************************************************)
(* getCanonicalVal / convertToInt of the workers.                          *)
(***************************************************************************)
RECURSIVE convertToInt(_)
convertToInt(edge) ==
    IF edge = <<>> THEN 0
    ELSE (MakeUpChar(Head(edge)) % 4) + 4 * convertToInt(Tail(edge))

getCanonicalVal(edge) ==
    LET revEdge == ReverseCompliment(edge)
    IN  IF StrGreater(edge, revEdge) THEN convertToInt(revEdge) ELSE convertToInt(edge)

(***************************************************************************)
(* Task and DistributeTasks: the chunking of one record.                   *)
(***************************************************************************)
\* Task::GAME_OVER, the start value of the sentinel task
GAME_OVER == -1

Task(seqId, start, piece, isFinal, str) ==
    [seqId |-> seqId, start |-> start, piece |-> piece, isFinal |-> isFinal, str |-> str]

GameOverTask == Task(0, GAME_OVER, 0, TRUE, <<>>)

\* the loop with prev = start - overlapSize after a push
RECURSIVE ChunkLoopEarlyPrev(_, _, _, _, _, _, _, _)
ChunkLoopEarlyPrev(rec, record, overlapSize, start, prev, buf, piece, acc) ==
    LET over   == start >= Len(rec)
        start1 == IF over THEN start ELSE start + 1
        buf1   == IF over THEN buf
                  ELSE Append(buf, IF IsDefinite(rec[start + 1]) THEN rec[start + 1] ELSE "N")
        emit   == Len(buf1) >= overlapSize /\ (Len(buf1) = TaskSize \/ over)
        overlap == IF over THEN <<>> ELSE SubSeq(buf1, Len(buf1) - overlapSize + 1, Len(buf1))
        str    == IF over THEN Append(buf1, "N") ELSE buf1
        acc1   == IF emit THEN Append(acc, Task(record, prev, piece, over, str)) ELSE acc
        prev1  == IF emit THEN start1 - overlapSize ELSE prev
        buf2   == IF emit THEN overlap ELSE buf1
        piece1 == IF emit THEN piece + 1 ELSE piece
    IN  IF over THEN acc1
        ELSE ChunkLoopEarlyPrev(rec, record, overlapSize, start1, prev1, buf2, piece1, acc1)

\* The do-while loop of DistributeTasks over one record: `start` characters are
\* read, `buf` is the growing buffer, `prev` the offset of the next chunk,
\* `piece` the next pieceCount, `acc` the tasks created so far.
RECURSIVE ChunkLoop(_, _, _, _, _, _, _, _)
ChunkLoop(rec, record, overlapSize, start, prev, buf, piece, acc) ==
    LET over   == start >= Len(rec)
        start1 == IF over THEN start ELSE start + 1
        buf1   == IF over THEN buf
                  ELSE Append(buf, IF IsDefinite(rec[start + 1]) THEN rec[start + 1] ELSE "N")
        emit   == Len(buf1) >= overlapSize /\ (Len(buf1) = TaskSize \/ over)
        overlap == IF over THEN <<>> ELSE SubSeq(buf1, Len(buf1) - overlapSize + 1, Len(buf1))
        str    == IF over THEN Append(buf1, "N") ELSE buf1
        acc1   == IF emit THEN Append(acc, Task(record, prev, piece, over, str)) ELSE acc
        prev1  == IF emit THEN start1 - overlapSize + 1 ELSE prev
        buf2   == IF emit THEN overlap ELSE buf1
        piece1 == IF emit THEN piece + 1 ELSE piece
    IN  IF over THEN acc1
        ELSE ChunkLoop(rec, record, overlapSize, start1, prev1, buf2, piece1, acc1)

\* the tasks of a record with pieceCount started again at 0 for the record
RecordTasksFromZero(rec, record, overlapSize, piece) ==
    ChunkLoop(rec, record, overlapSize, 0, 0, <<"N">>, 0, <<>>)

\* the tasks of record number `record` (0-based), the first of them getting `piece`
RecordTasks(rec, record, overlapSize, piece) ==
    ChunkLoop(rec, record, overlapSize, 0, 0, <<"N">>, piece, <<>>)

\* the tasks of the records recs[1..n], in creation order
RECURSIVE TasksUpTo(_, _, _)
TasksUpTo(recs, n, overlapSize) ==
    IF n = 0 THEN <<>>
    ELSE LET before == TasksUpTo(recs, n - 1, overlapSize)
         IN  before \o RecordTasks(recs[n], n - 1, overlapSize, Len(before))

(***************************************************************************)
(* FilterFillerWorker: the edges one task adds to the edge filter.         *)
(***************************************************************************)
FillAt(str, edgeLength, pos) ==
    LET vLen   == edgeLength - 1
        nextCh == At(str, pos + edgeLength - 1)
        vertex == Substr(str, pos, vLen)
        DUMMY_CHAR == LITERAL[1]
        REV_DUMMY_CHAR == ReverseChar(DUMMY_CHAR)
        nextEdges == IF IsDefinite(nextCh)
                     THEN {getCanonicalVal(Append(vertex, nextCh))}
                     ELSE {getCanonicalVal(Append(vertex, DUMMY_CHAR)),
                           getCanonicalVal(Append(vertex, REV_DUMMY_CHAR))}
        prevEdges == IF pos > 0 /\ ~IsDefinite(At(str, pos - 1))
                     THEN {getCanonicalVal(<<DUMMY_CHAR>> \o vertex),
                           getCanonicalVal(<<REV_DUMMY_CHAR>> \o vertex)}
                     ELSE {}
    IN  IF DefiniteCount(vertex) = vLen THEN nextEdges \cup prevEdges ELSE {}

FillTask(str, edgeLength) ==
    IF Len(str) < edgeLength THEN {}
    ELSE UNION {FillAt(str, edgeLength, pos) : pos \in 0..(Len(str) - edgeLength)}

(***************************************************************************)
(* CandidateCheckingWorker: the positions one task marks.                  *)
(***************************************************************************)
\* the loop over DnaChar::LITERAL with its early exit; returns <<inCount, outCount>>
RECURSIVE CountLoop(_, _, _, _, _, _, _)
CountLoop(i, inCount, outCount, vertex, posPrev, posExtend, filter) ==
    IF ~(i <= Len(LITERAL) /\ inCount < 2 /\ outCount < 2) THEN <<inCount, outCount>>
    ELSE LET nextCh == LITERAL[i]
             prevEdgeVal == getCanonicalVal(<<nextCh>> \o vertex)
             nextEdgeVal == getCanonicalVal(Append(vertex, nextCh))
             in1  == IF nextCh = posPrev \/ prevEdgeVal \in filter THEN inCount + 1 ELSE inCount
             out1 == IF nextCh = posExtend \/ nextEdgeVal \in filter THEN outCount + 1 ELSE outCount
         IN  CountLoop(i + 1, in1, out1, vertex, posPrev, posExtend, filter)

\* the test of a position that asks for both counts to exceed 1
IsCandidateBothSides(str, vLen, pos, filter) ==
    LET posPrev   == At(str, pos - 1)
        posExtend == At(str, pos + vLen)
        vertex    == Substr(str, pos, vLen)
        inCount   == IF IsDefinite(posPrev) THEN 0 ELSE 2
        outCount  == IF IsDefinite(posExtend) THEN 0 ELSE 2
        cnt       == CountLoop(1, inCount, outCount, vertex, posPrev, posExtend, filter)
    IN  DefiniteCount(vertex) = vLen /\ (cnt[1] > 1 /\ cnt[2] > 1)

IsCandidate(str, vLen, pos, filter) ==
    LET posPrev   == At(str, pos - 1)
        posExtend == At(str, pos + vLen)
        vertex    == Substr(str, pos, vLen)
        inCount   == IF IsDefinite(posPrev) THEN 0 ELSE 2
        outCount  == IF IsDefinite(posExtend) THEN 0 ELSE 2
        cnt       == CountLoop(1, inCount, outCount, vertex, posPrev, posExtend, filter)
    IN  DefiniteCount(vertex) = vLen /\ (cnt[1] > 1 \/ cnt[2] > 1)

\* the positions the loops of the three later workers visit: 1 .. size - k - 1
Positions(str, vLen) == 1..(Len(str) - vLen - 1)

CheckTask(str, vLen, filter) ==
    IF Len(str) >= vLen + 2
    THEN {pos \in Positions(str, vLen) : IsCandidate(str, vLen, pos, filter)}
    ELSE {}

\* the name without a position: ss << sequence << "_" << round << ".tmp"
CandidateMaskFileNameNoPos(sequence, pos, round) ==
    ToString(sequence) \o "_" \o ToString(round) \o ".tmp"

\* the name of the mask file inside the temporary directory, which is the
\* same for every name of a run:  sequence "_" pos "_" round ".tmp"
CandidateMaskFileName(sequence, pos, round) ==
    ToString(sequence) \o "_" \o ToString(pos) \o "_" \o ToString(round) \o ".tmp"

(***************************************************************************)
(* CandidateOccurence, the OccurenceSet and the Pass 2 merge.              *)
(***************************************************************************)
\* the canonical form of a k-mer: the smaller of it and its reverse complement
CanonicalKmer(vertex) ==
    LET rev == ReverseCompliment(vertex)
    IN  IF StrGreater(vertex, rev) THEN rev ELSE vertex

\* Occurence::Set: the record of one occurrence, flanks seen from the canonical strand
OccurenceOf(vertex, posExtend, posPrev, isBifurcation) ==
    LET rev == ReverseCompliment(vertex)
    IN  IF StrGreater(vertex, rev)
        THEN [base |-> rev, prev |-> ReverseChar(posExtend), next |-> ReverseChar(posPrev),
              bif |-> isBifurcation]
        ELSE [base |-> vertex, prev |-> posPrev, next |-> posExtend, bif |-> isBifurcation]

\* the merge without the comparison of the stored flanks with the new ones
FinalInsertUnknownOnly(occ, now) ==
    IF now.base \notin DOMAIN occ THEN (now.base :> now) @@ occ
    ELSE LET it == occ[now.base]
             inUnknownCount  == (IF now.prev = "N" THEN 1 ELSE 0) + (IF IsDefinite(it.prev) THEN 0 ELSE 1)
             outUnknownCount == (IF now.next = "N" THEN 1 ELSE 0) + (IF IsDefinite(it.next) THEN 0 ELSE 1)
         IN  IF ~it.bif /\ (now.bif \/ inUnknownCount > 1 \/ outUnknownCount > 1)
             THEN [occ EXCEPT ![now.base].bif = TRUE]
             ELSE occ

\* the merge that stores the outcome of the comparison with the newest occurrence
FinalInsertLastComparison(occ, now) ==
    IF now.base \notin DOMAIN occ THEN (now.base :> now) @@ occ
    ELSE LET it == occ[now.base]
             inUnknownCount  == (IF now.prev = "N" THEN 1 ELSE 0) + (IF IsDefinite(it.prev) THEN 0 ELSE 1)
             outUnknownCount == (IF now.next = "N" THEN 1 ELSE 0) + (IF IsDefinite(it.next) THEN 0 ELSE 1)
         IN  [occ EXCEPT ![now.base].bif = (now.bif \/ it.next # now.next \/ it.prev # now.prev
                                             \/ inUnknownCount > 1 \/ outUnknownCount > 1)]

\* occurenceSet.insert(now) and the merge that follows it; the set is a function
\* from the canonical base to the stored record
FinalInsert(occ, now) ==
    IF now.base \notin DOMAIN occ THEN (now.base :> now) @@ occ
    ELSE LET it == occ[now.base]
             inUnknownCount  == (IF now.prev = "N" THEN 1 ELSE 0) + (IF IsDefinite(it.prev) THEN 0 ELSE 1)
             outUnknownCount == (IF now.next = "N" THEN 1 ELSE 0) + (IF IsDefinite(it.next) THEN 0 ELSE 1)
         IN  IF ~it.bif /\ (now.bif \/ it.next # now.next \/ it.prev # now.prev
                             \/ inUnknownCount > 1 \/ outUnknownCount > 1)
             THEN [occ EXCEPT ![now.base].bif = TRUE]
             ELSE occ

\* the occurrence the final pass builds at position pos of a task
OccurenceAt(str, vLen, pos) ==
    OccurenceOf(Substr(str, pos, vLen), At(str, pos + vLen), At(str, pos - 1), FALSE)

(***************************************************************************)
(* TrueBifurcations and BifurcationStorage.                                *)
(***************************************************************************)
\* the order in which the concurrent set is traversed: by hash of the base,
\* a function of the contents of the set alone
RECURSIVE Traversal(_)
Traversal(bases) ==
    IF bases = {} THEN <<>>
    ELSE LET first == CHOOSE b \in bases : \A c \in bases : convertToInt(b) <= convertToInt(c)
         IN  <<first>> \o Traversal(bases \ {first})

\* the bases TrueBifurcations appends to bifurcations.bin
TrueBifurcations(occ) ==
    LET order == Traversal(DOMAIN occ)
    IN  SelectSeq(order, LAMBDA b : occ[b].bif)

\* BifurcationStorage::GetId on a stored sequence of bases: ids in read order
RECURSIVE IndexOf(_, _, _)
IndexOf(stored, base, i) ==
    IF i > Len(stored) THEN INVALID_VERTEX
    ELSE IF stored[i] = base THEN i - 1
    ELSE IndexOf(stored, base, i + 1)

GetId(stored, vertex) == IndexOf(stored, CanonicalKmer(vertex), 1)

(***************************************************************************)
(* JunctionPosition file: byte encoding, writer and reader.                *)
(***************************************************************************)
JunctionPosition(chr, pos, bifId) == [chr |-> chr, pos |-> pos, bifId |-> bifId]

\* static const uint32_t SEPARATOR_POS = -1; static const uint64_t SEPARATOR_BIF = -1
SEPARATOR_POS == Pow(ByteBase, PosBytes) - 1
SEPARATOR_BIF == Pow(ByteBase, BifBytes) - 1

\* out_.write(reinterpret_cast<const char*>(&v), n): n little-endian bytes
ToBytes(v, n) == [i \in 1..n |-> (v \div Pow(ByteBase, i - 1)) % ByteBase]

\* in_.read(reinterpret_cast<char*>(&v), n) of n bytes
RECURSIVE FromBytes(_)
FromBytes(bytes) ==
    IF bytes = <<>> THEN 0 ELSE Head(bytes) + ByteBase * FromBytes(Tail(bytes))

RecordBytes(pos, bifId) == ToBytes(pos, PosBytes) \o ToBytes(bifId, BifBytes)

\* the separators WriteJunction writes before a tuple of chromosome chr
RECURSIVE Separators(_, _)
Separators(nowChr, chr) ==
    IF chr > nowChr
    THEN RecordBytes(SEPARATOR_POS, SEPARATOR_BIF) \o Separators(nowChr + 1, chr)
    ELSE <<>>

\* JunctionPositionWriter::WriteJunction: the new nowChr_ and file contents
WriteJunction(nowChr, out, pos) ==
    [nowChr |-> IF pos.chr > nowChr THEN pos.chr ELSE nowChr,
     out    |-> out \o Separators(nowChr, pos.chr) \o RecordBytes(pos.pos, pos.bifId)]

\* the test of NextJunctionPosition that tells a tuple from a separator
IsTuple(pos, bifId) == pos # SEPARATOR_POS /\ bifId # SEPARATOR_BIF

\* JunctionPositionReader::NextJunctionPosition from offset off of the file:
\* [ok, pos, nowChr, off]
RECURSIVE NextJunctionPosition(_, _, _)
NextJunctionPosition(file, nowChr, off) ==
    IF off + PosBytes + BifBytes > Len(file)
    THEN [ok |-> FALSE, pos |-> JunctionPosition(nowChr, 0, 0), nowChr |-> nowChr, off |-> Len(file)]
    ELSE LET p == FromBytes(SubSeq(file, off + 1, off + PosBytes))
             b == FromBytes(SubSeq(file, off + PosBytes + 1, off + PosBytes + BifBytes))
             off1 == off + PosBytes + BifBytes
         IN  IF IsTuple(p, b)
             THEN [ok |-> TRUE, pos |-> JunctionPosition(nowChr, p, b), nowChr |-> nowChr, off |-> off1]
             ELSE NextJunctionPosition(file, nowChr + 1, off1)

(***************************************************************************)
(* The split of the filter domain [0, realSize] into the ranges of the     *)
(* rounds (constructor, lines 179-253 and 358).                            *)
(***************************************************************************)
\* static const uint64_t BINS_COUNT = 1 << 24, scaled
BINS_COUNT == Pow(2, BinsBits)

\* uint64_t realSize = uint64_t(1) << filterSize
RealSize(fSize) == Pow(2, fSize)

\* const uint64_t BIN_SIZE = max(uint64_t(1), realSize / BINS_COUNT)
BIN_SIZE(realSize) == IF realSize \div BINS_COUNT > 1 THEN realSize \div BINS_COUNT ELSE 1

\* std::fill(binCounter, binCounter + BINS_COUNT, 0)
EmptyBins == [b \in 1..BINS_COUNT |-> 0]

\* std::accumulate(binCounter, binCounter + BINS_COUNT, size_t(0))
RECURSIVE Accumulate(_)
Accumulate(bins) == IF bins = <<>> THEN 0 ELSE Head(bins) + Accumulate(Tail(bins))

\* the for loop that moves lowBoundary; roundSize is total / nRounds, a double,
\* so  accumulated <= roundSize  is compared after multiplying by nRounds
RECURSIVE BoundaryLoop(_, _, _, _, _, _)
BoundaryLoop(bins, boundary, accumulated, total, nRounds, isLast) ==
    IF boundary < BINS_COUNT /\ (accumulated * nRounds <= total \/ isLast)
    THEN BoundaryLoop(bins, boundary + 1, accumulated + bins[boundary + 1], total, nRounds, isLast)
    ELSE boundary

\* lowBoundary after the loop of one round; binCounter[lowBoundary] is read
\* first, and past the end of the array that read yields `beyond`
NextBoundary(bins, boundary, nRounds, isLast, beyond) ==
    BoundaryLoop(bins, boundary + 1,
                 IF boundary < BINS_COUNT THEN bins[boundary + 1] ELSE beyond,
                 Accumulate(bins), nRounds, isLast)

\* high of a round
RoundHigh(nRounds, realSize, boundary) ==
    IF nRounds > 1 THEN boundary * BIN_SIZE(realSize) ELSE realSize

\* the values a read past the end of binCounter may yield
Beyond == 0..MaxCount

(***************************************************************************)
(* State.                                                                  *)
(***************************************************************************)
VARIABLES
    \* the arguments of the constructor and the faults of its environment
    fileName,               \* the records of the input files, in reading order
    vertexLength,           \* k
    threads,                \* number of worker threads
    rounds,                 \* number of rounds
    tmpFault,               \* the stage in which the I/O on mask files throws, or "none"
    outGood,                \* the WriteJunction calls that still succeed; -1: all of them
    \* locals of the constructor shared with the workers
    stage,                  \* the stage the constructor is in
    round,
    taskQueue,              \* taskQueue[i]: the bounded queue of worker i
    error,                  \* std::unique_ptr<std::runtime_error> error
    errorMutex,             \* TRUE while tbb::mutex errorMutex is held
    cFilter,                \* the edge filter of the round
    maskFile,               \* the candidate mask files, by name
    occurenceSet,
    bifurcationTemp,        \* the contents of bifurcations.bin
    verticesCount,
    bifStorage,             \* bifStorage_, the stored bases in id order
    currentPiece,
    currentStubVertexId,
    currentStubVertexMutex, \* 0 when free, else the worker holding it
    \* DistributeTasks
    dist,
    \* the worker threads
    worker,
    \* JunctionPositionWriter and the tuples handed to it
    writer_nowChr,
    out_,
    handed,
    \* JunctionPositionReader
    fileOpen,               \* "writing", "reading" or "none"
    reader_nowChr,
    in_off,
    in_fail,
    readBack,
    \* the split of the filter domain into rounds
    filterSize,             \* log2 of the size of the edge filter
    binCounter,             \* binCounter[b + 1]: the count of bin b
    lowBoundary,
    low,
    high,
    ranges,                 \* the <<low, high>> of the rounds started so far
    \* files and bookkeeping
    filterDumpFile,         \* TRUE while <tmpDir>/filter.bin exists
    popCount,               \* popCount[p + 1]: the try_pops of piece p in this stage
    \* the merge of Pass 2 on its own
    occurences,             \* the candidate occurrences of one k-mer, as found
    inserted                \* the places of occurences already inserted

mergeVars == <<occurences, inserted>>
configVars == <<fileName, vertexLength, threads, rounds, tmpFault, mergeVars>>
sharedVars == <<stage, round, taskQueue, error, errorMutex, cFilter, maskFile, occurenceSet,
                bifurcationTemp, verticesCount, bifStorage, currentPiece, currentStubVertexId,
                currentStubVertexMutex, dist, worker>>
writerVars == <<writer_nowChr, out_, handed, outGood>>
readerVars == <<fileOpen, reader_nowChr, in_off, in_fail, readBack>>
splitVars == <<filterSize, binCounter, lowBoundary, low, high, ranges>>
vars == <<configVars, sharedVars, writerVars, readerVars, splitVars, filterDumpFile, popCount>>

NoError == [kind |-> "none", piece |-> 0]

ErrorOf(kind, piece) == [kind |-> kind, piece |-> piece]
NoTask == Task(0, 0, 0, FALSE, <<>>)

Workers == 1..threads

IdleWorker ==
    [pc |-> "idle", task |-> NoTask, pos |-> 0, mask |-> {}, cur |-> <<>>, result |-> <<>>,
     wr |-> 0, stubRead |-> 0]

\* DistributeTasks at its first record
StartDist == [pc |-> "record", rec |-> 1, pend |-> <<>>, nowQueue |-> 0, go |-> 0, piece |-> 0]

(***************************************************************************)
(* Inputs.                                                                 *)
(***************************************************************************)
Alphabet == {"A", "C", "T"}

\* every single record over Alphabet of at most MaxLen characters
ExhaustiveInputs == {<<r>> : r \in UNION {[1..n -> Alphabet] : n \in 0..MaxLen}}

\* inputs with several records, with N and with both strands
Scenarios ==
    { << <<"A","C","G","T">>, <<"A","C","G","A">> >>,
      << <<"A","C","G","A","A","C","G">> >>,
      << <<"A","N","N","N","C","G","T">> >>,
      << <<"C","A","T","T">>, <<"A","A","T">> >>,
      << <<"A","A">>, <<"C","T","A">>, <<"T","A","G">> >> }

\* the inputs run with more than one round
RoundScenarios ==
    { << <<"A","C","G","T">>, <<"A","C","G","A">> >>,
      << <<"C","A","T","T">>, <<"A","A","T">> >> }

VertexLengths == {2, 3}

TmpFaults == {"none", "check", "final", "edges"}

OutFaults == {-1, 0, 1}

PipelineInit ==
    /\ stage = IF rounds > 1 THEN "split" ELSE "fill"
    /\ filterSize = MaxFilterSize
    /\ binCounter = IF rounds > 1 THEN EmptyBins ELSE <<>>
    /\ lowBoundary = 0
    /\ low = 0
    /\ high = RealSize(filterSize)
    /\ ranges = IF rounds > 1 THEN <<>> ELSE << <<0, RealSize(filterSize)>> >>
    /\ filterDumpFile = FALSE
    /\ popCount = <<>>
    /\ occurences = <<>>
    /\ inserted = {}
    /\ round = 0
    /\ taskQueue = [i \in Workers |-> <<>>]
    /\ error = NoError
    /\ errorMutex = FALSE
    /\ cFilter = {}
    /\ maskFile = <<>>
    /\ occurenceSet = <<>>
    /\ bifurcationTemp = <<>>
    /\ verticesCount = 0
    /\ bifStorage = <<>>
    /\ currentPiece = 0
    /\ currentStubVertexId = 0
    /\ currentStubVertexMutex = 0
    /\ dist = StartDist
    /\ worker = [i \in Workers |-> IdleWorker]
    /\ writer_nowChr = 0
    /\ out_ = <<>>
    /\ handed = <<>>
    /\ fileOpen = "none"
    /\ reader_nowChr = 0
    /\ in_off = 0
    /\ in_fail = FALSE
    /\ readBack = <<>>

\* the configurations with faults, and with several threads
ScenarioInit ==
    /\ fileName \in Scenarios
    /\ rounds = 1
    /\ threads \in 1..MaxThreads
    /\ \/ tmpFault = "none" /\ outGood = -1
       \/ tmpFault \in TmpFaults /\ outGood \in OutFaults /\ threads = MaxThreads

Init ==
    /\ vertexLength \in VertexLengths
    /\ \/ /\ fileName \in ExhaustiveInputs
          /\ rounds = 1
          /\ threads = 1
          /\ tmpFault = "none"
          /\ outGood = -1
       \/ ScenarioInit
       \/ /\ fileName \in RoundScenarios
          /\ rounds \in 2..MaxRounds
          /\ threads = 1
          /\ tmpFault = "none"
          /\ outGood = -1
    /\ PipelineInit

(***************************************************************************)
(* ReportError and the error check of DistributeTasks.                     *)
(***************************************************************************)
\* ReportError: the slot after a report of msg
ReportError(err, msg) == IF err = NoError THEN msg ELSE err

\* the catch block of EdgeConstructionWorker: the slot after it caught msg
CatchError(err, msg) == msg

(***************************************************************************)
(* DistributeTasks, run by the constructor's thread in every stage.        *)
(***************************************************************************)
Running == stage \in {"split", "fill", "check", "final", "edges"}

\* ReadRecord and the check of the error slot at the head of the record loop
DistReadRecord ==
    /\ Running
    /\ dist.pc = "record"
    /\ ~errorMutex
    /\ IF dist.rec > Len(fileName)
       THEN /\ dist' = [dist EXCEPT !.pc = "gameover", !.go = 0]
            /\ UNCHANGED <<stage, errorMutex>>
       ELSE IF error # NoError
       THEN \* throw *error with the mutex held: the constructor is left
            /\ errorMutex' = TRUE
            /\ stage' = "failed"
            /\ dist' = [dist EXCEPT !.pc = "thrown"]
       ELSE LET tasks == RecordTasks(fileName[dist.rec], dist.rec - 1, vertexLength + 1, dist.piece)
            IN  /\ dist' = [dist EXCEPT !.pend = tasks,
                                        !.piece = dist.piece + Len(tasks),
                                        !.pc = IF tasks = <<>> THEN "record" ELSE "push",
                                        !.rec = IF tasks = <<>> THEN dist.rec + 1 ELSE dist.rec]
                /\ UNCHANGED <<stage, errorMutex>>
    /\ UNCHANGED <<configVars, splitVars, filterDumpFile, popCount, round, taskQueue, error, cFilter, maskFile, occurenceSet,
                   bifurcationTemp, verticesCount, bifStorage, currentPiece, currentStubVertexId,
                   currentStubVertexMutex, worker, writerVars, readerVars>>

NextQueue(q) == IF q + 1 < threads THEN q + 1 ELSE 0

HasRoom(q) == QueueCapacity - Len(q) > 0

\* one turn of the loop that looks for a queue with room
DistPush ==
    /\ Running
    /\ dist.pc = "push"
    /\ LET q == dist.nowQueue + 1
       IN  IF HasRoom(taskQueue[q])
           THEN /\ taskQueue' = [taskQueue EXCEPT ![q] = Append(@, Head(dist.pend))]
                /\ dist' = [dist EXCEPT !.pend = Tail(dist.pend),
                                        !.nowQueue = NextQueue(dist.nowQueue),
                                        !.pc = IF Len(dist.pend) = 1 THEN "record" ELSE "push",
                                        !.rec = IF Len(dist.pend) = 1 THEN dist.rec + 1 ELSE dist.rec]
           ELSE /\ dist' = [dist EXCEPT !.nowQueue = NextQueue(dist.nowQueue)]
                /\ UNCHANGED taskQueue
    /\ UNCHANGED <<configVars, splitVars, filterDumpFile, popCount, stage, round, error, errorMutex, cFilter, maskFile, occurenceSet,
                   bifurcationTemp, verticesCount, bifStorage, currentPiece, currentStubVertexId,
                   currentStubVertexMutex, worker, writerVars, readerVars>>

\* the loop over the queues that stops one queue early
AllButOneGameOver(go) == go >= threads - 1

\* the end of the loop  for (i = 0; i < taskQueue.size(); i++)
AllGameOver(go) == go >= threads

\* try_push of the GAME_OVER task into queue number dist.go
DistGameOver ==
    /\ Running
    /\ dist.pc = "gameover"
    /\ IF AllGameOver(dist.go)
       THEN dist' = [dist EXCEPT !.pc = "done"] /\ UNCHANGED taskQueue
       ELSE /\ HasRoom(taskQueue[dist.go + 1])
            /\ taskQueue' = [taskQueue EXCEPT ![dist.go + 1] = Append(@, GameOverTask)]
            /\ dist' = [dist EXCEPT !.go = dist.go + 1]
    /\ UNCHANGED <<configVars, splitVars, filterDumpFile, popCount, stage, round, error, errorMutex, cFilter, maskFile, occurenceSet,
                   bifurcationTemp, verticesCount, bifStorage, currentPiece, currentStubVertexId,
                   currentStubVertexMutex, worker, writerVars, readerVars>>

(***************************************************************************)
(* The workers of Pass 1a, Pass 1b and Pass 2.                             *)
(***************************************************************************)
CanPop(w) == worker[w].pc = "idle" /\ taskQueue[w] # <<>>

\* the count of try_pops that returned piece p
PopsOf(count, p) == IF p + 1 <= Len(count) THEN count[p + 1] ELSE 0

\* the counts after try_pop returned task
CountPop(count, task) ==
    IF task.start = GAME_OVER THEN count
    ELSE [p \in 1..(IF task.piece + 1 > Len(count) THEN task.piece + 1 ELSE Len(count)) |->
            PopsOf(count, p - 1) + (IF p = task.piece + 1 THEN 1 ELSE 0)]

Popped(w) == Head(taskQueue[w])

\* FilterFillerWorker: try_pop and the whole body of the loop for that task
FilterFillerWorker(w) ==
    /\ stage = "fill"
    /\ CanPop(w)
    /\ popCount' = CountPop(popCount, Popped(w))
    /\ taskQueue' = [taskQueue EXCEPT ![w] = Tail(@)]
    /\ IF Popped(w).start = GAME_OVER
       THEN worker' = [worker EXCEPT ![w].pc = "exited"] /\ UNCHANGED cFilter
       ELSE cFilter' = cFilter \cup FillTask(Popped(w).str, vertexLength + 1) /\ UNCHANGED worker
    /\ UNCHANGED <<configVars, splitVars, filterDumpFile, stage, round, error, errorMutex, maskFile, occurenceSet,
                   bifurcationTemp, verticesCount, bifStorage, currentPiece, currentStubVertexId,
                   currentStubVertexMutex, dist, writerVars, readerVars>>

\* CandidateCheckingWorker: try_pop, the marking of the task and the write of its mask
CandidateCheckingWorker(w) ==
    /\ stage = "check"
    /\ CanPop(w)
    /\ popCount' = CountPop(popCount, Popped(w))
    /\ taskQueue' = [taskQueue EXCEPT ![w] = Tail(@)]
    /\ LET task  == Popped(w)
           marks == CheckTask(task.str, vertexLength, cFilter)
           name  == CandidateMaskFileName(task.seqId, task.start, round)
       IN  IF task.start = GAME_OVER
           THEN worker' = [worker EXCEPT ![w].pc = "exited"] /\ UNCHANGED <<maskFile, error>>
           ELSE IF Len(task.str) < vertexLength + 2 \/ marks = {}
           THEN UNCHANGED <<worker, maskFile, error>>
           ELSE IF tmpFault = "check"
           THEN /\ error' = ReportError(error, ErrorOf("TempIO", task.piece))
                /\ UNCHANGED <<worker, maskFile>>
           ELSE /\ maskFile' = (name :> marks) @@ maskFile
                /\ UNCHANGED <<worker, error>>
    /\ UNCHANGED <<configVars, splitVars, filterDumpFile, stage, round, errorMutex, cFilter, occurenceSet,
                   bifurcationTemp, verticesCount, bifStorage, currentPiece, currentStubVertexId,
                   currentStubVertexMutex, dist, writerVars, readerVars>>

\* readFromFile of one mask: the positions it holds, none when the file is absent
ReadMask(name) == IF name \in DOMAIN maskFile THEN maskFile[name] ELSE {}

\* the position after pos at which the loop of a task goes on, 0 when it ends
NextPos(str, pos) == IF pos + vertexLength + 1 < Len(str) THEN pos + 1 ELSE 0

\* CandidateFinalFilteringWorker: try_pop and the read of the task's mask
FinalPop(w) ==
    /\ stage = "final"
    /\ CanPop(w)
    /\ popCount' = CountPop(popCount, Popped(w))
    /\ taskQueue' = [taskQueue EXCEPT ![w] = Tail(@)]
    /\ LET task == Popped(w)
           name == CandidateMaskFileName(task.seqId, task.start, round)
       IN  IF task.start = GAME_OVER
           THEN worker' = [worker EXCEPT ![w].pc = "exited"] /\ UNCHANGED error
           ELSE IF Len(task.str) < vertexLength + 2
           THEN UNCHANGED <<worker, error>>
           ELSE /\ worker' = [worker EXCEPT ![w].pc = "final", ![w].task = task, ![w].pos = 1,
                                            ![w].mask = IF tmpFault = "final" THEN {} ELSE ReadMask(name)]
                /\ error' = IF tmpFault = "final"
                            THEN ReportError(error, ErrorOf("TempIO", task.piece))
                            ELSE error
    /\ UNCHANGED <<configVars, splitVars, filterDumpFile, stage, round, errorMutex, cFilter, maskFile, occurenceSet,
                   bifurcationTemp, verticesCount, bifStorage, currentPiece, currentStubVertexId,
                   currentStubVertexMutex, dist, writerVars, readerVars>>

\* CandidateFinalFilteringWorker: one turn of the loop over the positions
FinalStep(w) ==
    /\ stage = "final"
    /\ worker[w].pc = "final"
    /\ LET me   == worker[w]
           next == NextPos(me.task.str, me.pos)
       IN  /\ occurenceSet' = IF me.pos \in me.mask
                              THEN FinalInsert(occurenceSet, OccurenceAt(me.task.str, vertexLength, me.pos))
                              ELSE occurenceSet
           /\ worker' = [worker EXCEPT ![w] = IF next = 0 THEN IdleWorker ELSE [me EXCEPT !.pos = next]]
    /\ UNCHANGED <<configVars, splitVars, filterDumpFile, popCount, stage, round, taskQueue, error, errorMutex, cFilter, maskFile,
                   bifurcationTemp, verticesCount, bifStorage, currentPiece, currentStubVertexId,
                   currentStubVertexMutex, dist, writerVars, readerVars>>

(***************************************************************************)
(* The Emission stage: EdgeConstructionWorker and FlushEdgeResults.        *)
(***************************************************************************)
EdgeResult(pieceId, junction) == [pieceId |-> pieceId, junction |-> junction]

\* the candidate filter an Emission worker builds from the masks of all rounds
LoadMasks(task) ==
    {pos \in 0..(Len(task.str) - 1) :
        \E i \in 0..(rounds - 1) : pos \in ReadMask(CandidateMaskFileName(task.seqId, task.start, i))}

\* EdgeConstructionWorker: try_pop and the read of the masks of the task
EdgePop(w) ==
    /\ stage = "edges"
    /\ CanPop(w)
    /\ popCount' = CountPop(popCount, Popped(w))
    /\ taskQueue' = [taskQueue EXCEPT ![w] = Tail(@)]
    /\ LET task == Popped(w)
       IN  IF task.start = GAME_OVER
           THEN worker' = [worker EXCEPT ![w].pc = "finalflush"] /\ UNCHANGED error
           ELSE IF Len(task.str) < vertexLength + 2
           THEN UNCHANGED <<worker, error>>
           ELSE /\ worker' = [worker EXCEPT ![w].pc = "loop", ![w].task = task, ![w].pos = 1,
                                            ![w].cur = <<>>,
                                            ![w].mask = IF tmpFault = "edges" THEN {} ELSE LoadMasks(task)]
                /\ error' = IF tmpFault = "edges"
                            THEN ReportError(error, ErrorOf("TempIO", task.piece))
                            ELSE error
    /\ UNCHANGED <<configVars, splitVars, filterDumpFile, stage, round, errorMutex, cFilter, maskFile, occurenceSet,
                   bifurcationTemp, verticesCount, bifStorage, currentPiece, currentStubVertexId,
                   currentStubVertexMutex, dist, writerVars, readerVars>>

\* FlushEdgeResults without the comparison of pieceId with currentPiece
CanFlushAnyPiece(result, piece) == result # <<>>

\* FlushEdgeResults letting through every piece from currentPiece on
CanFlushFromPiece(result, piece) == result # <<>> /\ Head(result).pieceId >= piece

\* the test of FlushEdgeResults
CanFlush(result, piece) == result # <<>> /\ Head(result).pieceId = piece

\* the end of the loop with result.push_back only for a result that holds tuples
AdvanceSkipEmpty(me, cur) ==
    LET next == NextPos(me.task.str, me.pos)
    IN  IF next = 0
        THEN [IdleWorker EXCEPT !.result = IF cur = <<>> THEN me.result
                                           ELSE Append(me.result, EdgeResult(me.task.piece, cur)),
                                !.wr = me.wr]
        ELSE [me EXCEPT !.pos = next, !.cur = cur, !.pc = "loop"]

\* the worker after the body of the loop at its position: the next position, or
\* the push of currentResult and the way back to try_pop
Advance(me, cur) ==
    LET next == NextPos(me.task.str, me.pos)
    IN  IF next = 0
        THEN [IdleWorker EXCEPT !.result = Append(me.result, EdgeResult(me.task.piece, cur)),
                                !.wr = me.wr]
        ELSE [me EXCEPT !.pos = next, !.cur = cur, !.pc = "loop"]

\* the endpoint test with both positions taken one too far to the left and right
IsEndpointOffByOne(task, pos) ==
    (task.start = 0 /\ pos = 0) \/ (task.isFinal /\ pos = Len(task.str) - vertexLength)

\* whether the position is the first of a record or the last of a final task
IsEndpoint(task, pos) ==
    (task.start = 0 /\ pos = 1) \/ (task.isFinal /\ pos = Len(task.str) - vertexLength - 1)

\* the lookup of the window that starts one character early
BifIdAtPrevWindow(task, pos, mask, stored) ==
    LET vertex == Substr(task.str, pos, vertexLength)
    IN  IF DefiniteCount(vertex) = vertexLength /\ pos \in mask
        THEN GetId(stored, Substr(task.str, pos - 1, vertexLength))
        ELSE INVALID_VERTEX

\* the id the loop finds at its position
BifIdAt(task, pos, mask, stored) ==
    LET vertex == Substr(task.str, pos, vertexLength)
    IN  IF DefiniteCount(vertex) = vertexLength /\ pos \in mask
        THEN GetId(stored, vertex)
        ELSE INVALID_VERTEX

\* FlushEdgeResults: one WriteJunction of the front result, and after the last
\* one ++currentPiece and pop_front
EdgeFlush(w) ==
    /\ stage = "edges"
    /\ worker[w].pc \in {"loop", "finalflush"}
    /\ CanFlush(worker[w].result, currentPiece)
    /\ ~errorMutex
    /\ LET me    == worker[w]
           front == Head(me.result)
           last  == me.wr + 1 >= Len(front.junction)
       IN  IF front.junction = <<>>
           THEN /\ currentPiece' = currentPiece + 1
                /\ worker' = [worker EXCEPT ![w].result = Tail(me.result), ![w].wr = 0]
                /\ UNCHANGED <<error, writerVars>>
           ELSE /\ handed' = Append(handed, front.junction[me.wr + 1])
                /\ IF outGood = 0
                   THEN \* WriteJunction throws; the catch block of the worker stores the error
                        /\ error' = CatchError(error, ErrorOf("OutputIO", front.pieceId))
                        /\ worker' = [worker EXCEPT ![w] = [IdleWorker EXCEPT !.pc = "exited"]]
                        /\ UNCHANGED <<currentPiece, writer_nowChr, out_, outGood>>
                   ELSE LET wrote == WriteJunction(writer_nowChr, out_, front.junction[me.wr + 1])
                        IN  /\ writer_nowChr' = wrote.nowChr
                            /\ out_' = wrote.out
                            /\ outGood' = IF outGood > 0 THEN outGood - 1 ELSE outGood
                            /\ currentPiece' = IF last THEN currentPiece + 1 ELSE currentPiece
                            /\ worker' = [worker EXCEPT
                                            ![w].result = IF last THEN Tail(me.result) ELSE me.result,
                                            ![w].wr = IF last THEN 0 ELSE me.wr + 1]
                            /\ UNCHANGED error
    /\ UNCHANGED <<configVars, splitVars, filterDumpFile, popCount, stage, round, taskQueue, errorMutex, cFilter, maskFile, occurenceSet,
                   bifurcationTemp, verticesCount, bifStorage, currentStubVertexId,
                   currentStubVertexMutex, dist, readerVars>>

\* the body of the loop at one position, up to the lock of the stub mutex
EdgeStep(w) ==
    /\ stage = "edges"
    /\ worker[w].pc = "loop"
    /\ ~CanFlush(worker[w].result, currentPiece)
    /\ LET me    == worker[w]
           bifId == BifIdAt(me.task, me.pos, me.mask, bifStorage)
           cur   == IF bifId # INVALID_VERTEX
                    THEN Append(me.cur, JunctionPosition(me.task.seqId, me.task.start + me.pos - 1, bifId))
                    ELSE me.cur
       IN  worker' = [worker EXCEPT ![w] =
                        IF IsEndpoint(me.task, me.pos) /\ bifId = INVALID_VERTEX
                        THEN [me EXCEPT !.pc = "wantstub", !.cur = cur]
                        ELSE Advance(me, cur)]
    /\ UNCHANGED <<configVars, splitVars, filterDumpFile, popCount, stage, round, taskQueue, error, errorMutex, cFilter, maskFile,
                   occurenceSet, bifurcationTemp, verticesCount, bifStorage, currentPiece,
                   currentStubVertexId, currentStubVertexMutex, dist, writerVars, readerVars>>

\* a lock that never waits
MutexNeverWaits(mutex) == TRUE

\* whether a thread may take currentStubVertexMutex
MutexFree(mutex) == mutex = 0

\* currentStubVertexMutex.lock() and the read of currentStubVertexId
EdgeStubLock(w) ==
    /\ stage = "edges"
    /\ worker[w].pc = "wantstub"
    /\ MutexFree(currentStubVertexMutex)
    /\ currentStubVertexMutex' = w
    /\ worker' = [worker EXCEPT ![w].pc = "stublocked", ![w].stubRead = currentStubVertexId]
    /\ UNCHANGED <<configVars, splitVars, filterDumpFile, popCount, stage, round, taskQueue, error, errorMutex, cFilter, maskFile,
                   occurenceSet, bifurcationTemp, verticesCount, bifStorage, currentPiece,
                   currentStubVertexId, dist, writerVars, readerVars>>

\* the push of the stub tuple, the store of currentStubVertexId + 1 and the unlock
EdgeStubUnlock(w) ==
    /\ stage = "edges"
    /\ worker[w].pc = "stublocked"
    /\ LET me  == worker[w]
           cur == Append(me.cur, JunctionPosition(me.task.seqId, me.task.start + me.pos - 1, me.stubRead))
       IN  worker' = [worker EXCEPT ![w] = Advance([me EXCEPT !.stubRead = 0], cur)]
    /\ currentStubVertexId' = worker[w].stubRead + 1
    /\ currentStubVertexMutex' = 0
    /\ UNCHANGED <<configVars, splitVars, filterDumpFile, popCount, stage, round, taskQueue, error, errorMutex, cFilter, maskFile,
                   occurenceSet, bifurcationTemp, verticesCount, bifStorage, currentPiece,
                   dist, writerVars, readerVars>>

\* the end of the loop  while (result.size() > 0) FlushEdgeResults(...)
EdgeExit(w) ==
    /\ stage = "edges"
    /\ worker[w].pc = "finalflush"
    /\ worker[w].result = <<>>
    /\ worker' = [worker EXCEPT ![w] = [IdleWorker EXCEPT !.pc = "exited"]]
    /\ UNCHANGED <<configVars, splitVars, filterDumpFile, popCount, stage, round, taskQueue, error, errorMutex, cFilter, maskFile,
                   occurenceSet, bifurcationTemp, verticesCount, bifStorage, currentPiece,
                   currentStubVertexId, currentStubVertexMutex, dist, writerVars, readerVars>>

(***************************************************************************)
(* The constructor between the stages: the joins and what follows them.    *)
(***************************************************************************)
\* the constructor going on as soon as DistributeTasks has returned
DistributorReturned == dist.pc = "done"

\* DistributeTasks has returned and every workerThread[i]->join() has returned
Joined == dist.pc = "done" /\ \A w \in Workers : worker[w].pc = "exited"

Restart ==
    /\ dist' = StartDist
    /\ worker' = [w \in Workers |-> IdleWorker]
    /\ popCount' = <<>>

\* the stub counter started right after the junction ids
FirstStubVertexIdNoGap(count) == count

\* the value currentStubVertexId starts from
FirstStubVertexId(count) == count + StubGap

\* BifurcationStorage::Init: the first count bases of bifurcations.bin
StorageInit(file, count) == SubSeq(file, 1, count)

\* the head of the round loop: the move of lowBoundary and the new high
StartRound(r, newLow) ==
    \E beyond \in (IF lowBoundary < BINS_COUNT THEN {0} ELSE Beyond) :
        LET boundary == NextBoundary(binCounter, lowBoundary, rounds, r + 1 = rounds, beyond)
            newHigh  == RoundHigh(rounds, RealSize(filterSize), boundary)
        IN  /\ lowBoundary' = boundary
            /\ high' = newHigh
            /\ ranges' = Append(ranges, <<newLow, newHigh>>)

\* InitialFilterFillerWorker: try_pop and the whole body of the loop for that
\* task; the filter it fills is local to the split and is never read, and the
\* update of binCounter is commented out in the source
InitialFilterFillerWorker(w) ==
    /\ stage = "split"
    /\ CanPop(w)
    /\ popCount' = CountPop(popCount, Popped(w))
    /\ taskQueue' = [taskQueue EXCEPT ![w] = Tail(@)]
    /\ worker' = IF Popped(w).start = GAME_OVER THEN [worker EXCEPT ![w].pc = "exited"] ELSE worker
    /\ UNCHANGED <<configVars, splitVars, filterDumpFile, stage, round, error, errorMutex, cFilter,
                   maskFile, occurenceSet, bifurcationTemp, verticesCount, bifStorage, currentPiece,
                   currentStubVertexId, currentStubVertexMutex, dist, writerVars, readerVars>>

\* the join of the split stage and the head of round 0
JoinSplit ==
    /\ stage = "split"
    /\ Joined
    /\ stage' = "fill"
    /\ Restart
    /\ StartRound(0, low)
    /\ UNCHANGED <<configVars, filterSize, binCounter, low, filterDumpFile, round, taskQueue, error,
                   errorMutex, cFilter, maskFile, occurenceSet, bifurcationTemp, verticesCount,
                   bifStorage, currentPiece, currentStubVertexId, currentStubVertexMutex,
                   writerVars, readerVars>>

JoinFill ==
    /\ stage = "fill"
    /\ Joined
    /\ stage' = "check"
    /\ Restart
    /\ UNCHANGED <<configVars, splitVars, filterDumpFile, round, taskQueue, error, errorMutex, cFilter, maskFile, occurenceSet,
                   bifurcationTemp, verticesCount, bifStorage, currentPiece, currentStubVertexId,
                   currentStubVertexMutex, writerVars, readerVars>>

JoinCheck ==
    /\ stage = "check"
    /\ Joined
    /\ cFilter' = {}
    /\ occurenceSet' = <<>>
    /\ IF error # NoError
       THEN stage' = "failed" /\ UNCHANGED <<dist, worker, popCount>>
       ELSE stage' = "final" /\ Restart
    /\ UNCHANGED <<configVars, splitVars, filterDumpFile, round, taskQueue, error, errorMutex, maskFile,
                   bifurcationTemp, verticesCount, bifStorage, currentPiece, currentStubVertexId,
                   currentStubVertexMutex, writerVars, readerVars>>

\* the join of Pass 2, TrueBifurcations, and after the last round
\* BifurcationStorage::Init and the set-up of the Emission stage
JoinFinal ==
    /\ stage = "final"
    /\ Joined
    /\ IF error # NoError
       THEN /\ stage' = "failed"
            /\ UNCHANGED <<round, bifurcationTemp, verticesCount, bifStorage, currentStubVertexId,
                           fileOpen, lowBoundary, low, high, ranges, dist, worker, popCount>>
       ELSE LET written == TrueBifurcations(occurenceSet)
                file    == bifurcationTemp \o written
                count   == verticesCount + Len(written)
            IN  /\ Restart
                /\ bifurcationTemp' = file
                /\ verticesCount' = count
                /\ round' = round + 1
                /\ low' = high + 1
                /\ IF round + 1 < rounds
                   THEN /\ stage' = "fill"
                        /\ StartRound(round + 1, high + 1)
                        /\ UNCHANGED <<bifStorage, currentStubVertexId, fileOpen>>
                   ELSE /\ stage' = "edges"
                        /\ UNCHANGED <<lowBoundary, high, ranges>>
                        /\ bifStorage' = StorageInit(file, count)
                        /\ currentStubVertexId' = FirstStubVertexId(count)
                        /\ fileOpen' = "writing"
    /\ UNCHANGED <<configVars, filterSize, binCounter, filterDumpFile, taskQueue, error, errorMutex,
                   cFilter, maskFile, occurenceSet, currentPiece, currentStubVertexMutex, writerVars, reader_nowChr, in_off, in_fail,
                   readBack>>

JoinEdges ==
    /\ stage = "edges"
    /\ Joined
    /\ stage' = IF error # NoError THEN "failed" ELSE "done"
    /\ UNCHANGED <<configVars, splitVars, filterDumpFile, popCount, round, taskQueue, error, errorMutex, cFilter, maskFile, occurenceSet,
                   bifurcationTemp, verticesCount, bifStorage, currentPiece, currentStubVertexId,
                   currentStubVertexMutex, dist, worker, writerVars, readerVars>>

\* ~VertexEnumeratorImpl: std::remove(filterDumpFile_)
Destroy ==
    /\ stage = "done"
    /\ stage' = "destroyed"
    /\ filterDumpFile' = FALSE
    /\ UNCHANGED <<configVars, splitVars, popCount, round, taskQueue, error, errorMutex, cFilter,
                   maskFile, occurenceSet, bifurcationTemp, verticesCount, bifStorage, currentPiece,
                   currentStubVertexId, currentStubVertexMutex, dist, worker, writerVars, readerVars>>

(***************************************************************************)
(* The specification of the constructor.                                   *)
(***************************************************************************)
Next ==
    \/ DistReadRecord
    \/ DistPush
    \/ DistGameOver
    \/ \E w \in Workers : InitialFilterFillerWorker(w)
    \/ \E w \in Workers : FilterFillerWorker(w)
    \/ \E w \in Workers : CandidateCheckingWorker(w)
    \/ \E w \in Workers : FinalPop(w)
    \/ \E w \in Workers : FinalStep(w)
    \/ \E w \in Workers : EdgePop(w)
    \/ \E w \in Workers : EdgeFlush(w)
    \/ \E w \in Workers : EdgeStep(w)
    \/ \E w \in Workers : EdgeStubLock(w)
    \/ \E w \in Workers : EdgeStubUnlock(w)
    \/ \E w \in Workers : EdgeExit(w)
    \/ JoinSplit
    \/ JoinFill
    \/ JoinCheck
    \/ JoinFinal
    \/ JoinEdges
    \/ Destroy

Spec == Init /\ [][Next]_vars

(***************************************************************************)
(* The constructor under fair scheduling: the constructor's thread (the    *)
(* distributor and the joins) and every worker thread keep running while   *)
(* they have a step to take.                                               *)
(***************************************************************************)
\* the steps of the thread that runs the constructor
MainStep ==
    DistReadRecord \/ DistPush \/ DistGameOver \/ JoinSplit \/ JoinFill \/ JoinCheck
        \/ JoinFinal \/ JoinEdges

\* the steps of worker thread w
WorkerStep(w) ==
    /\ w \in Workers
    /\ \/ InitialFilterFillerWorker(w)
       \/ FilterFillerWorker(w)
       \/ CandidateCheckingWorker(w)
       \/ FinalPop(w)
       \/ FinalStep(w)
       \/ EdgePop(w)
       \/ EdgeFlush(w)
       \/ EdgeStep(w)
       \/ EdgeStubLock(w)
       \/ EdgeStubUnlock(w)
       \/ EdgeExit(w)

\* the configurations checked under fairness: one record in several chunks
\* and several records, with and without a failing writer
FairScenarios ==
    { << <<"A","N","N","N","C","G","T">> >>,
      << <<"A","A">>, <<"C","T","A">>, <<"T","A","G">> >> }

InitFair ==
    /\ vertexLength = 2
    /\ fileName \in FairScenarios
    /\ tmpFault = "none"
    /\ \/ rounds = 1 /\ threads \in 1..MaxThreads /\ outGood = -1
       \/ rounds = 1 /\ threads = MaxThreads /\ outGood \in OutFaults
       \/ rounds \in 2..MaxRounds /\ threads = 1 /\ outGood = -1
    /\ PipelineInit

FairSpec ==
    /\ InitFair
    /\ [][Next]_vars
    /\ WF_vars(MainStep)
    /\ \A w \in 1..MaxThreads : WF_vars(WorkerStep(w))

(***************************************************************************)
(* The specification of the junction position file: a writer fed with any  *)
(* tuples, closed, then a reader over the file it wrote.                   *)
(***************************************************************************)
PosValues == {0, 1, SEPARATOR_POS}
BifValues == {0, 1, SEPARATOR_BIF}

InitFile ==
    /\ fileName = <<>>
    /\ vertexLength = 2
    /\ threads = 1
    /\ rounds = 1
    /\ tmpFault = "none"
    /\ outGood = -1
    /\ stage = "file"
    /\ round = 0
    /\ taskQueue = [i \in Workers |-> <<>>]
    /\ error = NoError
    /\ errorMutex = FALSE
    /\ cFilter = {}
    /\ maskFile = <<>>
    /\ occurenceSet = <<>>
    /\ bifurcationTemp = <<>>
    /\ verticesCount = 0
    /\ bifStorage = <<>>
    /\ currentPiece = 0
    /\ currentStubVertexId = 0
    /\ currentStubVertexMutex = 0
    /\ dist = StartDist
    /\ worker = [i \in Workers |-> IdleWorker]
    /\ writer_nowChr = 0
    /\ out_ = <<>>
    /\ handed = <<>>
    /\ fileOpen = "writing"
    /\ reader_nowChr = 0
    /\ in_off = 0
    /\ in_fail = FALSE
    /\ readBack = <<>>
    /\ filterSize = 0
    /\ binCounter = <<>>
    /\ lowBoundary = 0
    /\ low = 0
    /\ high = 0
    /\ ranges = <<>>
    /\ filterDumpFile = FALSE
    /\ popCount = <<>>
    /\ occurences = <<>>
    /\ inserted = {}

\* a call of JunctionPositionWriter::WriteJunction by a client
FileWrite ==
    /\ stage = "file"
    /\ fileOpen = "writing"
    /\ Len(handed) < MaxWrites
    /\ \E chr \in 0..MaxChr, pos \in PosValues, bifId \in BifValues :
          LET wrote == WriteJunction(writer_nowChr, out_, JunctionPosition(chr, pos, bifId))
          IN  /\ handed' = Append(handed, JunctionPosition(chr, pos, bifId))
              /\ writer_nowChr' = wrote.nowChr
              /\ out_' = wrote.out
    /\ UNCHANGED <<configVars, splitVars, filterDumpFile, popCount, sharedVars, outGood, readerVars>>

\* the writer is destroyed and a JunctionPositionReader is opened on the file
FileClose ==
    /\ stage = "file"
    /\ fileOpen = "writing"
    /\ fileOpen' = "reading"
    /\ reader_nowChr' = 0
    /\ in_off' = 0
    /\ in_fail' = FALSE
    /\ readBack' = <<>>
    /\ UNCHANGED <<configVars, splitVars, filterDumpFile, popCount, sharedVars, writerVars>>

\* a call of JunctionPositionReader::NextJunctionPosition
FileRead ==
    /\ stage = "file"
    /\ fileOpen = "reading"
    /\ ~in_fail
    /\ LET got == NextJunctionPosition(out_, reader_nowChr, in_off)
       IN  /\ reader_nowChr' = got.nowChr
           /\ in_off' = got.off
           /\ in_fail' = ~got.ok
           /\ readBack' = IF got.ok THEN Append(readBack, got.pos) ELSE readBack
    /\ UNCHANGED <<configVars, splitVars, filterDumpFile, popCount, sharedVars, writerVars, fileOpen>>

NextFile == FileWrite \/ FileClose \/ FileRead

SpecFile == InitFile /\ [][NextFile]_vars

(***************************************************************************)
(* The specification of the Pass 2 merge on its own: the candidate         *)
(* occurrences of one canonical k-mer, inserted into the OccurenceSet one  *)
(* by one in any order, as CandidateFinalFilteringWorkers on any number of *)
(* threads insert them.                                                    *)
(***************************************************************************)
\* the flanks an occurrence may record
Flanks == {"A", "C", "N"}

\* the canonical k-mer the occurrences are of
MergeBase == <<"A", "C">>

\* the records Occurence::Set may build for MergeBase
MergeOccurences ==
    {[base |-> MergeBase, prev |-> p, next |-> n, bif |-> FALSE] : p \in Flanks, n \in Flanks}

InitMerge ==
    /\ fileName = <<>>
    /\ vertexLength = 2
    /\ threads = 1
    /\ rounds = 1
    /\ tmpFault = "none"
    /\ outGood = -1
    /\ stage = "merge"
    /\ round = 0
    /\ taskQueue = [i \in Workers |-> <<>>]
    /\ error = NoError
    /\ errorMutex = FALSE
    /\ cFilter = {}
    /\ maskFile = <<>>
    /\ occurenceSet = <<>>
    /\ bifurcationTemp = <<>>
    /\ verticesCount = 0
    /\ bifStorage = <<>>
    /\ currentPiece = 0
    /\ currentStubVertexId = 0
    /\ currentStubVertexMutex = 0
    /\ dist = StartDist
    /\ worker = [i \in Workers |-> IdleWorker]
    /\ writer_nowChr = 0
    /\ out_ = <<>>
    /\ handed = <<>>
    /\ fileOpen = "none"
    /\ reader_nowChr = 0
    /\ in_off = 0
    /\ in_fail = FALSE
    /\ readBack = <<>>
    /\ filterSize = 0
    /\ binCounter = <<>>
    /\ lowBoundary = 0
    /\ low = 0
    /\ high = 0
    /\ ranges = <<>>
    /\ filterDumpFile = FALSE
    /\ popCount = <<>>
    /\ occurences \in UNION {[1..n -> MergeOccurences] : n \in 1..MaxOccurences}
    /\ inserted = {}

\* some worker inserts the occurrence at place i and merges it
MergeInsert(i) ==
    /\ stage = "merge"
    /\ i \in (1..Len(occurences)) \ inserted
    /\ occurenceSet' = FinalInsert(occurenceSet, occurences[i])
    /\ inserted' = inserted \cup {i}
    /\ UNCHANGED <<fileName, vertexLength, threads, rounds, tmpFault, occurences, stage, round,
                   taskQueue, error, errorMutex, cFilter, maskFile, bifurcationTemp, verticesCount,
                   bifStorage, currentPiece, currentStubVertexId, currentStubVertexMutex, dist,
                   worker, writerVars, readerVars, splitVars, filterDumpFile, popCount>>

NextMerge == \E i \in 1..MaxOccurences : MergeInsert(i)

SpecMerge == InitMerge /\ [][NextMerge]_vars

(***************************************************************************)
(* The de Bruijn graph of the input, for the statements below.             *)
(***************************************************************************)
\* a record as the distributor passes it on
Normalized(rec) == [i \in 1..Len(rec) |-> IF IsDefinite(rec[i]) THEN rec[i] ELSE "N"]

\* the n-mers over {A,C,G,T} that occur in the records
Windows(n) ==
    {w \in UNION {{Substr(Normalized(fileName[r]), q, n) : q \in 0..(Len(fileName[r]) - n)} :
                  r \in 1..Len(fileName)} : DefiniteCount(w) = n}

\* the (k+1)-mers of the input, and those of both strands
InputEdges == Windows(vertexLength + 1)
BothStrandEdges == InputEdges \cup {ReverseCompliment(e) : e \in InputEdges}

InDegree(x, edges)  == Cardinality({c \in Range(LITERAL) : (<<c>> \o x) \in edges})
OutDegree(x, edges) == Cardinality({c \in Range(LITERAL) : Append(x, c) \in edges})

\* the k-mers with two or more predecessors or successors, both strands considered
TrueJunctions ==
    {x \in Windows(vertexLength) :
        InDegree(x, BothStrandEdges) >= 2 \/ OutDegree(x, BothStrandEdges) >= 2}

\* the k-mer at offset pos of record chr, <<>> when there is none
KmerAt(chr, pos) ==
    IF chr + 1 \in 1..Len(fileName) /\ pos >= 0 /\ pos + vertexLength <= Len(fileName[chr + 1])
    THEN Substr(Normalized(fileName[chr + 1]), pos, vertexLength)
    ELSE <<>>

StorageBuilt == stage \in {"edges", "done"}

\* every tuple that exists: handed to the writer, or still held by a worker
HeldBy(w) ==
    Range(worker[w].cur) \cup UNION {Range(worker[w].result[i].junction) : i \in 1..Len(worker[w].result)}
AllTuples == Range(handed) \cup UNION {HeldBy(w) : w \in Workers}

\* a tuple that does not carry the id of the k-mer at its position
IsStubTuple(t) == t.bifId # GetId(bifStorage, KmerAt(t.chr, t.pos))

(***************************************************************************)
(* C1: the tuples handed to JunctionPositionWriter are in non-decreasing   *)
(* seqId order and, within one seqId, in strictly increasing pos order,    *)
(* under every interleaving of the Emission workers.                       *)
(***************************************************************************)
C1_OutputOrdered ==
    \A i \in 1..(Len(handed) - 1) :
        \/ handed[i].chr < handed[i + 1].chr
        \/ handed[i].chr = handed[i + 1].chr /\ handed[i].pos < handed[i + 1].pos

\* two workers, a record cut into several chunks, and tuples of two records written
C1_Witness ==
    /\ stage = "done"
    /\ threads > 1
    /\ \E r \in 1..Len(fileName) : Len(RecordTasks(fileName[r], r - 1, vertexLength + 1, 0)) > 1
    /\ \E i \in 1..(Len(handed) - 1) : handed[i].chr = handed[i + 1].chr
    /\ \E i \in 1..(Len(handed) - 1) : handed[i].chr < handed[i + 1].chr

(***************************************************************************)
(* C2: every k-mer with in-degree >= 2 or out-degree >= 2 in the de Bruijn *)
(* graph of the input (both strands) is flagged by Pass 2 and resolves to  *)
(* a valid id, also when it equals its own reverse complement.             *)
(***************************************************************************)
C2_AllJunctionsFound ==
    StorageBuilt => \A x \in TrueJunctions : GetId(bifStorage, x) # INVALID_VERTEX

C4_SameIdEverywhere ==
    (StorageBuilt /\ error = NoError) =>
        \A t \in AllTuples :
            LET x == KmerAt(t.chr, t.pos)
            IN  /\ GetId(bifStorage, x) # INVALID_VERTEX => t.bifId = GetId(bifStorage, x)
                /\ GetId(bifStorage, ReverseCompliment(x)) = GetId(bifStorage, x)

\* two tuples written for occurrences of one junction k-mer on opposite strands
C4_Witness ==
    /\ stage = "done"
    /\ \E i, j \in 1..Len(handed) :
          LET x == KmerAt(handed[i].chr, handed[i].pos)
              y == KmerAt(handed[j].chr, handed[j].pos)
          IN  /\ x # y
              /\ y = ReverseCompliment(x)
              /\ handed[i].bifId = handed[j].bifId
              /\ handed[i].bifId = GetId(bifStorage, x)
              /\ handed[i].bifId # INVALID_VERTEX

(***************************************************************************)
(* C5: reading back the file written from any stream of tuples yields the  *)
(* same tuples in the same order, and then the end of the file.            *)
(***************************************************************************)
C5_RoundTrip ==
    (stage = "file" /\ fileOpen = "reading" /\ in_fail) => readBack = handed

(***************************************************************************)
(* C6: the reader skips a record, and counts a chromosome, exactly when    *)
(* both its pos and its bifId are all ones; a record with one such field   *)
(* is a tuple.                                                             *)
(***************************************************************************)
\* the records of a file
RECURSIVE FileRecords(_)
FileRecords(file) ==
    IF Len(file) < PosBytes + BifBytes THEN <<>>
    ELSE <<[pos   |-> FromBytes(SubSeq(file, 1, PosBytes)),
            bifId |-> FromBytes(SubSeq(file, PosBytes + 1, PosBytes + BifBytes))]>>
         \o FileRecords(SubSeq(file, PosBytes + BifBytes + 1, Len(file)))

IsSeparator(rec) == rec.pos = SEPARATOR_POS /\ rec.bifId = SEPARATOR_BIF

\* what a reader that skips exactly the separators yields from the records
RECURSIVE TuplesOf(_, _)
TuplesOf(recs, chr) ==
    IF recs = <<>> THEN <<>>
    ELSE IF IsSeparator(Head(recs)) THEN TuplesOf(Tail(recs), chr + 1)
    ELSE <<JunctionPosition(chr, Head(recs).pos, Head(recs).bifId)>> \o TuplesOf(Tail(recs), chr)

C6_SeparatorIsBoth ==
    (stage = "file" /\ fileOpen = "reading") =>
        LET consumed == FileRecords(SubSeq(out_, 1, in_off))
        IN  /\ readBack = TuplesOf(consumed, 0)
            /\ reader_nowChr = Cardinality({i \in 1..Len(consumed) : IsSeparator(consumed[i])})

(***************************************************************************)
(* C7: for a fixed input, k, rounds and worker count the tuples written    *)
(* are the same in every run, the stub ids included: every finished run    *)
(* wrote what the run that handles the pieces one after the other writes.  *)
(***************************************************************************)
\* the tuples of the tasks from number n on, handled in piece order, the next
\* stub id being stub
RECURSIVE InPieceOrder(_, _, _, _)
InPieceOrder(tasks, n, pos, stub) ==
    IF n > Len(tasks) THEN <<>>
    ELSE LET task  == tasks[n]
             bifId == BifIdAt(task, pos, LoadMasks(task), bifStorage)
             isStub == IsEndpoint(task, pos) /\ bifId = INVALID_VERTEX
             here  == IF bifId # INVALID_VERTEX
                      THEN <<JunctionPosition(task.seqId, task.start + pos - 1, bifId)>>
                      ELSE IF isStub
                      THEN <<JunctionPosition(task.seqId, task.start + pos - 1, stub)>>
                      ELSE <<>>
             stub1 == IF isStub THEN stub + 1 ELSE stub
             next  == NextPos(task.str, pos)
         IN  here \o (IF next = 0 THEN InPieceOrder(tasks, n + 1, 1, stub1)
                      ELSE InPieceOrder(tasks, n, next, stub1))

C7_SameOutputInEveryRun ==
    stage = "done" =>
        handed = InPieceOrder(TasksUpTo(fileName, Len(fileName), vertexLength + 1), 1, 1,
                              FirstStubVertexId(verticesCount))

(***************************************************************************)
(* C8 as stated: after a run with V junction k-mers and stubCount stub     *)
(* tuples every vertex id of the output lies in [0, V + stubCount).        *)
(***************************************************************************)
StubCount == Cardinality({i \in 1..Len(handed) : IsStubTuple(handed[i])})

C8_IdsBelowVPlusStubs ==
    stage = "done" =>
        \A i \in 1..Len(handed) : handed[i].bifId >= 0 /\ handed[i].bifId < verticesCount + StubCount

(***************************************************************************)
(* C8 as amended: after a run with V junction k-mers and stubCount stub    *)
(* tuples the junction tuples carry ids of [0, V), the stub tuples carry   *)
(* exactly the ids V + 42 .. V + 42 + stubCount - 1, one each, and two     *)
(* junction tuples of one canonical k-mer carry one id.                    *)
(***************************************************************************)
C8_IdsInTwoRanges ==
    stage = "done" =>
        LET stubs == {i \in 1..Len(handed) : IsStubTuple(handed[i])}
            juncs == (1..Len(handed)) \ stubs
            first == verticesCount + StubGap
        IN  /\ \A i \in juncs : handed[i].bifId \in 0..(verticesCount - 1)
            /\ {handed[i].bifId : i \in stubs} = first..(first + Cardinality(stubs) - 1)
            /\ \A i, j \in stubs : handed[i].bifId = handed[j].bifId => i = j
            /\ \A i, j \in juncs :
                  CanonicalKmer(KmerAt(handed[i].chr, handed[i].pos))
                      = CanonicalKmer(KmerAt(handed[j].chr, handed[j].pos))
                  => handed[i].bifId = handed[j].bifId

C8_Witness ==
    /\ stage = "done"
    /\ verticesCount >= 1
    /\ \E i \in 1..Len(handed) : ~IsStubTuple(handed[i])
    /\ StubCount >= 2

(***************************************************************************)
(* C9: the stub ids come from one counter that starts at verticesCount +   *)
(* 42 and is advanced under the mutex: under every interleaving no two     *)
(* stub tuples carry one id, and no stub id is an id of the storage.       *)
(***************************************************************************)
C9_StubIdsFresh ==
    LET stubs == {t \in AllTuples : IsStubTuple(t)}
    IN  \A t \in stubs :
            /\ t.bifId >= verticesCount + StubGap
            /\ t.bifId < currentStubVertexId
            /\ t.bifId \notin 0..(Len(bifStorage) - 1)
            /\ \A u \in stubs : u.bifId = t.bifId => u = t

\* a worker waits for the mutex another one holds, both with a stub made before
C9_Witness ==
    \E w1, w2 \in Workers :
        /\ w1 # w2
        /\ worker[w1].pc = "stublocked"
        /\ worker[w2].pc = "wantstub"
        /\ \E t \in AllTuples : IsStubTuple(t)
        /\ Len(bifStorage) >= 1

(***************************************************************************)
(* C10: once an error is stored in the shared slot, no later report, by    *)
(* ReportError or by the exception handler of a worker, replaces it.       *)
(***************************************************************************)
C10_FirstWriterWins == [][error # NoError => error' = error]_vars

(***************************************************************************)
(* C11: whenever the error slot is set during a stage, every worker of     *)
(* that stage eventually exits, the join completes and the constructor     *)
(* then fails with the error: no worker is left spinning.                  *)
(***************************************************************************)
C11_Cancellation ==
    (error # NoError) ~> (stage = "failed" /\ \A w \in Workers : worker[w].pc = "exited")

(***************************************************************************)
(* C12: when the constructor fails with an error raised in the Emission    *)
(* stage, no junction tuple written before the error is left in the        *)
(* output file.                                                            *)
(***************************************************************************)
C12_NoPartialOutput == stage = "failed" => out_ = <<>>

(***************************************************************************)
(* C13: a record of exactly k definite bases yields exactly one tuple, at  *)
(* position 0; the start and the final condition meet there, and one stub  *)
(* id is taken for it, not two.                                            *)
(***************************************************************************)
\* the records of exactly k definite bases, by their seqId
ShortRecords ==
    {r \in 0..(Len(fileName) - 1) :
        Len(fileName[r + 1]) = vertexLength /\ DefiniteCount(fileName[r + 1]) = vertexLength}

\* the places of the tuples of record r among the tuples handed to the writer
HandedOf(r) == {i \in 1..Len(handed) : handed[i].chr = r}

C13_OneTupleForShortRecord ==
    /\ \A r \in ShortRecords : \A w \in Workers :
          Cardinality(HandedOf(r)) + Len(worker[w].cur) <= 1 \/ worker[w].task.seqId # r
    /\ stage = "done" =>
          /\ \A r \in ShortRecords :
                Cardinality(HandedOf(r)) = 1 /\ \A i \in HandedOf(r) : handed[i].pos = 0
          /\ currentStubVertexId = FirstStubVertexId(verticesCount) + StubCount

C13_Witness ==
    /\ stage = "done"
    /\ \E r \in ShortRecords : \E i \in HandedOf(r) : IsStubTuple(handed[i])
    /\ Len(fileName) > 1

(***************************************************************************)
(* C14: a k-mer whose occurrences show at most one definite predecessor    *)
(* and at most one definite successor is not stored as a junction, also    *)
(* when one of its occurrences is the first or the last k-mer of a record. *)
(***************************************************************************)
C14_BoundaryIsNoJunction ==
    StorageBuilt =>
        \A x \in Windows(vertexLength) :
            (InDegree(x, BothStrandEdges) <= 1 /\ OutDegree(x, BothStrandEdges) <= 1)
                => GetId(bifStorage, x) = INVALID_VERTEX

(***************************************************************************)
(* C15: no tuple, junction or stub, is made for a position whose k-window  *)
(* holds an N, the first window of a record and the last window of a final *)
(* task included.                                                          *)
(***************************************************************************)
C15_NoTupleOnN ==
    \A t \in AllTuples : DefiniteCount(KmerAt(t.chr, t.pos)) = vertexLength

(***************************************************************************)
(* C16: once the constructor has returned, <tmpDir>/filter.bin exists and  *)
(* holds the filter, until the destructor removes it.                      *)
(***************************************************************************)
C16_FilterDumpKept == stage = "done" => filterDumpFile

(***************************************************************************)
(* C17: with more than one round the ranges [low, high] of the rounds are  *)
(* contiguous (each low is the high before it plus 1), hence disjoint, lie *)
(* inside [0, realSize] and cover it, the last one ending at realSize.     *)
(***************************************************************************)
C17_RoundsPartitionDomain ==
    (rounds > 1 /\ Len(ranges) = rounds) =>
        /\ ranges[1][1] = 0
        /\ \A i \in 1..(rounds - 1) : ranges[i + 1][1] = ranges[i][2] + 1
        /\ \A i \in 1..rounds :
              /\ ranges[i][1] <= ranges[i][2]
              /\ ranges[i][2] <= RealSize(filterSize)
        /\ ranges[rounds][2] = RealSize(filterSize)

(***************************************************************************)
(* C18: each junction k-mer is confirmed in exactly one round: over all    *)
(* rounds no k-mer is appended to bifurcations.bin twice, and              *)
(* verticesCount is the number of distinct k-mers appended.                *)
(***************************************************************************)
C18_EachJunctionInOneRound ==
    /\ \A i, j \in 1..Len(bifurcationTemp) : bifurcationTemp[i] = bifurcationTemp[j] => i = j
    /\ verticesCount = Cardinality(Range(bifurcationTemp))

(***************************************************************************)
(* C19: in every stage each task the distributor created is in exactly one *)
(* queue or was popped exactly once, never both and never twice, and when  *)
(* the stage has ended, by its join or by a throw, every task created was  *)
(* popped: none is lost.                                                   *)
(***************************************************************************)
\* the number of tasks DistributeTasks has pushed in this stage
Pushed == dist.piece - Len(dist.pend)

\* the places in the queues that hold piece p
QueuedAt(p) ==
    {<<w, i>> \in Workers \X (1..QueueCapacity) :
        i <= Len(taskQueue[w]) /\ taskQueue[w][i].start # GAME_OVER /\ taskQueue[w][i].piece = p}

\* the stage has ended: it was joined, or the constructor was left by a throw
StageOver == Joined \/ stage = "failed"

C19_EveryTaskPoppedOnce ==
    /\ \A p \in 0..(Pushed - 1) : Cardinality(QueuedAt(p)) + PopsOf(popCount, p) = 1
    /\ Len(popCount) <= Pushed
    /\ StageOver => \A p \in 0..(Pushed - 1) : PopsOf(popCount, p) = 1

(***************************************************************************)
(* C20: in a stage without a reported error the distributor pushes one     *)
(* GAME_OVER task to every queue, behind every real task of that queue; a  *)
(* worker exits only on its GAME_OVER, with its queue empty; when the      *)
(* stage is joined all queues are empty and every task was popped, and the *)
(* next stage starts from empty queues.  Under fair scheduling every stage *)
(* ends: the run reaches the end of the constructor unless an error is     *)
(* reported.                                                               *)
(***************************************************************************)
\* queue w holds a GAME_OVER task at place i
IsGameOverAt(w, i) == i <= Len(taskQueue[w]) /\ taskQueue[w][i].start = GAME_OVER

C20_Shutdown ==
    (Running /\ error = NoError) =>
        /\ \A w \in Workers : \A i \in 1..QueueCapacity :
              IsGameOverAt(w, i) =>
                  i = Len(taskQueue[w]) /\ dist.pc \in {"gameover", "done"} /\ w <= dist.go
        /\ dist.pc = "done" => dist.go = threads
        /\ \A w \in Workers :
              worker[w].pc = "exited" => taskQueue[w] = <<>> /\ w <= dist.go
        /\ Joined =>
              /\ \A w \in Workers : taskQueue[w] = <<>>
              /\ \A p \in 0..(Pushed - 1) : PopsOf(popCount, p) = 1
        /\ dist = StartDist => \A w \in Workers : taskQueue[w] = <<>>

C20_OrderlyShutdown == [](C20_Shutdown) /\ <>(stage = "done" \/ error # NoError)

C20_Witness ==
    /\ stage = "edges"
    /\ Joined
    /\ error = NoError
    /\ threads > 1
    /\ Len(popCount) > 1
    /\ \A w \in Workers : taskQueue[w] = <<>>

(***************************************************************************)
(* C21: within one run of the distributor the pieceIds of the tasks are    *)
(* 0, 1, 2, ... in creation order, without gap or repeat; a record too     *)
(* short to yield a task takes no pieceId; every task has at least k + 2   *)
(* characters, so that the Emission worker makes an EdgeResult for it.     *)
(***************************************************************************)
\* the tasks one run of DistributeTasks creates, in creation order
AllTasks == TasksUpTo(fileName, Len(fileName), vertexLength + 1)

\* the real tasks that wait in the queues
Queued ==
    {taskQueue[w][i] : <<w, i>> \in {<<w, i>> \in Workers \X (1..QueueCapacity) :
                                        i <= Len(taskQueue[w]) /\ ~IsGameOverAt(w, i)}}

\* the pieces of which worker w holds the task or a result not yet written
PiecesOf(w) ==
    {worker[w].result[i].pieceId : i \in 1..Len(worker[w].result)}
        \cup (IF worker[w].pc \in {"loop", "wantstub", "stublocked"} THEN {worker[w].task.piece} ELSE {})

C21_PieceIdsContiguous ==
    /\ dist = StartDist =>
          LET all == AllTasks
          IN  /\ \A i \in 1..Len(all) :
                    /\ all[i].piece = i - 1
                    /\ Len(all[i].str) >= vertexLength + 2
                    /\ i > 1 => all[i - 1].seqId <= all[i].seqId
              /\ \A r \in 1..Len(fileName) :
                    Len(fileName[r]) < vertexLength
                        <=> ~(\E i \in 1..Len(all) : all[i].seqId = r - 1)
    /\ Running =>
          /\ \A i \in 1..Len(dist.pend) :
                dist.pend[i].piece = Pushed + i - 1 /\ Len(dist.pend[i].str) >= vertexLength + 2
          /\ \A t \in Queued : t.piece < Pushed /\ Len(t.str) >= vertexLength + 2
    /\ (stage = "edges" /\ error = NoError) =>
          \A p \in 0..(Pushed - 1) :
              PopsOf(popCount, p) = 1 => p < currentPiece \/ \E w \in Workers : p \in PiecesOf(w)
    /\ stage = "done" => currentPiece = Len(AllTasks)

\* a finished run over a record too short for a task, followed by records
\* that were cut into tasks
C21_Witness ==
    /\ stage = "done"
    /\ Len(fileName[1]) < vertexLength
    /\ Len(AllTasks) >= 2
    /\ currentPiece = Len(AllTasks)

(***************************************************************************)
(* C22: the stages are separated by a barrier.  The constructor leaves a   *)
(* stage for the next one only when every worker of the stage has          *)
(* terminated, and a stage starts with idle workers and empty queues; the  *)
(* edge filter changes only while it is filled and is not touched while    *)
(* CandidateCheckingWorkers probe it; BifurcationStorage is built while no *)
(* worker runs and is not touched during Emission.                         *)
(***************************************************************************)
AllExited == \A w \in Workers : worker[w].pc = "exited"

C22_StageStartsClean ==
    /\ (Running /\ dist = StartDist) =>
          \A w \in Workers : worker[w] = IdleWorker /\ taskQueue[w] = <<>>
    /\ \A w \in Workers :
          /\ worker[w].pc = "final" => stage \in {"final", "failed"}
          /\ worker[w].pc \in {"loop", "wantstub", "stublocked", "finalflush"}
                => stage \in {"edges", "failed"}

C22_StepKeepsBarrier ==
    /\ (stage' # stage /\ stage' # "failed") => AllExited
    /\ cFilter' # cFilter => (stage = "fill" \/ AllExited)
    /\ (stage = "check" /\ ~AllExited) => cFilter' = cFilter
    /\ bifStorage' # bifStorage => (stage = "final" /\ AllExited)
    /\ stage = "edges" => bifStorage' = bifStorage

C22_StagesSeparated == [](C22_StageStartsClean) /\ [][C22_StepKeepsBarrier]_vars

\* Pass 1b under way with several workers, on a filter that Pass 1a filled
C22_Witness ==
    /\ stage = "check"
    /\ threads > 1
    /\ cFilter # {}
    /\ Len(popCount) > 0
    /\ ~AllExited

(***************************************************************************)
(* C23: during Emission a worker hands tuples to JunctionPositionWriter    *)
(* only while the pieceId of its front result equals currentPiece; at most *)
(* one worker is in that position at any moment; currentPiece never        *)
(* decreases and grows by one exactly when the last tuple of the current   *)
(* piece has been written and the piece is dropped, so the pieces are      *)
(* written in the order 0, 1, 2, ..., each at most once.                   *)
(***************************************************************************)
\* the front result of worker w is the piece whose turn it is
HoldsCurrent(w) == worker[w].result # <<>> /\ Head(worker[w].result).pieceId = currentPiece

C23_OneWriter ==
    stage = "edges" =>
        /\ \A w \in Workers : worker[w].wr > 0 => HoldsCurrent(w)
        /\ \A w1, w2 \in Workers : (HoldsCurrent(w1) /\ HoldsCurrent(w2)) => w1 = w2
        /\ \A w \in Workers : \A i \in 1..Len(worker[w].result) :
              /\ worker[w].result[i].pieceId >= currentPiece
              /\ i > 1 => worker[w].result[i - 1].pieceId < worker[w].result[i].pieceId
        /\ \A w1, w2 \in Workers : w1 # w2 => PiecesOf(w1) \cap PiecesOf(w2) = {}

C23_WriteStep ==
    /\ currentPiece' \in {currentPiece, currentPiece + 1}
    /\ handed' # handed =>
          \E w \in Workers :
              /\ HoldsCurrent(w)
              /\ handed' = Append(handed, Head(worker[w].result).junction[worker[w].wr + 1])
    /\ currentPiece' # currentPiece =>
          \E w \in Workers :
              /\ HoldsCurrent(w)
              /\ worker[w].wr + 1 >= Len(Head(worker[w].result).junction)
              /\ worker'[w].result = Tail(worker[w].result)

C23_WritesInPieceOrder == [](C23_OneWriter) /\ [][C23_WriteStep]_vars

\* a worker in the middle of writing the current piece while another worker
\* waits with the result of a later piece
C23_Witness ==
    /\ stage = "edges"
    /\ \E w1, w2 \in Workers :
          /\ w1 # w2
          /\ worker[w1].wr > 0
          /\ worker[w2].result # <<>>
          /\ Head(worker[w2].result).pieceId > currentPiece
    /\ currentPiece > 0

(***************************************************************************)
(* C24: Emission is live.  Under fair scheduling, for every number of      *)
(* workers and every assignment of the tasks to the queues, an Emission    *)
(* stage in which no error is reported ends: every EdgeResult is written,  *)
(* currentPiece reaches the number of pieces distributed, and every worker *)
(* leaves its final flush loop and terminates.                             *)
(***************************************************************************)
C24_EmissionLive ==
    (stage = "edges")
        ~> (error # NoError
            \/ (stage = "done" /\ currentPiece = dist.piece /\ AllExited
                 /\ \A w \in Workers : worker[w].result = <<>>))

\* a finished run of several workers over several pieces, one of which
\* yielded no tuple
C24_Witness ==
    /\ stage = "done"
    /\ error = NoError
    /\ threads > 1
    /\ currentPiece >= 3
    /\ Len(handed) < currentPiece

(***************************************************************************)
(* C25: Pass 1b marks position p of a chunk if and only if the k-window at *)
(* p is fully definite and the previous flank is not definite, or at least *)
(* two characters c of ACGT are the previous flank or have canonical(c.v)  *)
(* in the edge filter, or the next flank is not definite, or at least two  *)
(* characters c are the next flank or have canonical(v.c) in the filter.   *)
(* The early exit of the loop over the characters changes no mark.         *)
(***************************************************************************)
\* the rule with both counts taken over all four characters
ShouldMark(str, vLen, pos, filter) ==
    LET posPrev   == At(str, pos - 1)
        posExtend == At(str, pos + vLen)
        vertex    == Substr(str, pos, vLen)
        ins  == {c \in Range(LITERAL) : c = posPrev \/ getCanonicalVal(<<c>> \o vertex) \in filter}
        outs == {c \in Range(LITERAL) : c = posExtend \/ getCanonicalVal(Append(vertex, c)) \in filter}
    IN  /\ DefiniteCount(vertex) = vLen
        /\ \/ ~IsDefinite(posPrev)
           \/ Cardinality(ins) >= 2
           \/ ~IsDefinite(posExtend)
           \/ Cardinality(outs) >= 2

\* the mask file of a task in the round under way
MaskOf(task) == ReadMask(CandidateMaskFileName(task.seqId, task.start, round))

C25_MarksExactlyCandidates ==
    (stage = "check" /\ Joined /\ tmpFault # "check") =>
        LET all == AllTasks
        IN  \A i \in 1..Len(all) :
                MaskOf(all[i])
                    = {pos \in Positions(all[i].str, vertexLength) :
                          ShouldMark(all[i].str, vertexLength, pos, cFilter)}

\* Pass 1b is over; a position with definite flanks was marked because of the
\* filter, and a position with a definite window was left unmarked
C25_Witness ==
    /\ stage = "check"
    /\ Joined
    /\ tmpFault # "check"
    /\ \E i \in 1..Len(AllTasks) : \E pos \in MaskOf(AllTasks[i]) :
          /\ IsDefinite(At(AllTasks[i].str, pos - 1))
          /\ IsDefinite(At(AllTasks[i].str, pos + vertexLength))
    /\ \E i \in 1..Len(AllTasks) :
          \E pos \in Positions(AllTasks[i].str, vertexLength) \ MaskOf(AllTasks[i]) :
              DefiniteCount(Substr(AllTasks[i].str, pos, vertexLength)) = vertexLength

(***************************************************************************)
(* C26: the Pass 2 merge is commutative and idempotent.  In whatever order *)
(* the candidate occurrences of a canonical k-mer are inserted, its        *)
(* isBifurcation flag after the last insertion is the same function of the *)
(* multiset of occurrences; the flag is never cleared once set; and        *)
(* inserting an occurrence with definite flanks that equals one already    *)
(* inserted changes nothing.                                               *)
(***************************************************************************)
\* the flag by the multiset alone: two of the occurrences at the places `done`
\* differ in a flank, or both have the previous flank unknown, or both the next
MergedFlag(occs, done) ==
    \E i, j \in done :
        /\ i # j
        /\ \/ occs[i].prev # occs[j].prev
           \/ occs[i].next # occs[j].next
           \/ occs[i].prev = "N" /\ occs[j].prev = "N"
           \/ occs[i].next = "N" /\ occs[j].next = "N"

C26_FlagByMultiset ==
    (inserted # {}) =>
        /\ DOMAIN occurenceSet = {MergeBase}
        /\ occurenceSet[MergeBase].bif = MergedFlag(occurences, inserted)

C26_InsertKeepsFlag ==
    \A i \in inserted' \ inserted :
        /\ \A base \in DOMAIN occurenceSet :
              /\ base \in DOMAIN occurenceSet'
              /\ occurenceSet[base].bif => occurenceSet'[base].bif
        /\ (\E j \in inserted :
                /\ occurences[j] = occurences[i]
                /\ IsDefinite(occurences[i].prev)
                /\ IsDefinite(occurences[i].next))
              => occurenceSet' = occurenceSet

C26_MergeCommutes == [](C26_FlagByMultiset) /\ [][C26_InsertKeepsFlag]_vars

\* all of three or more occurrences are inserted: two equal ones with definite
\* flanks and between them one that differs; the flag is set
C26_Witness ==
    /\ stage = "merge"
    /\ inserted = 1..Len(occurences)
    /\ Len(occurences) >= 3
    /\ occurences[1] = occurences[3]
    /\ occurences[1] # occurences[2]
    /\ IsDefinite(occurences[1].prev) /\ IsDefinite(occurences[1].next)
    /\ occurenceSet[MergeBase].bif

(***************************************************************************)
(* C27: the chunking covers each k-window exactly once.  For every record  *)
(* and every offset q of a k-window in it, exactly one pair of a task of   *)
(* the record and a position pos of its loop (1 .. size - k - 1) has       *)
(* task.start + pos - 1 = q, and there the payload shows the window of the *)
(* record and its two flanks (N beyond the ends of the record); no         *)
(* position of a loop lies outside the record; task.start is the record    *)
(* offset of the window at pos = 1; and every (k+1)-mer of the record lies *)
(* inside the payload of a task, at the place task.start says.             *)
(***************************************************************************)
\* character number q of a record, N beyond its ends
RecordChar(rec, q) == IF q >= 0 /\ q < Len(rec) THEN Normalized(rec)[q + 1] ELSE "N"

\* the pairs of a task of record r and a loop position that stand for offset q
SitesOf(all, r, q) ==
    {<<i, pos>> \in (1..Len(all)) \X (1..TaskSize) :
        /\ all[i].seqId = r
        /\ pos \in Positions(all[i].str, vertexLength)
        /\ all[i].start + pos - 1 = q}

C27_EveryWindowOnce ==
    dist = StartDist =>
        LET all == AllTasks
        IN  \A r \in 0..(Len(fileName) - 1) :
                LET rec == fileName[r + 1]
                IN  /\ \A q \in 0..(Len(rec) - vertexLength) :
                          /\ Cardinality(SitesOf(all, r, q)) = 1
                          /\ \A site \in SitesOf(all, r, q) :
                                \A d \in (-1)..vertexLength :
                                    At(all[site[1]].str, site[2] + d) = RecordChar(rec, q + d)
                    /\ \A i \in 1..Len(all) : \A pos \in Positions(all[i].str, vertexLength) :
                          all[i].seqId = r
                              => all[i].start + pos - 1 \in 0..(Len(rec) - vertexLength)
                    /\ \A q \in 0..(Len(rec) - vertexLength - 1) :
                          \E i \in 1..Len(all) :
                              /\ all[i].seqId = r
                              /\ q - all[i].start + 1 >= 0
                              /\ q - all[i].start + 1 + vertexLength < Len(all[i].str)
                              /\ \A d \in 0..vertexLength :
                                    At(all[i].str, q - all[i].start + 1 + d) = RecordChar(rec, q + d)

\* the distributor of the last stage is about to start on a record that is cut
\* into three or more tasks, so that an inner task starts at a positive offset
C27_Witness ==
    /\ dist = StartDist
    /\ stage = "edges"
    /\ \E i \in 1..Len(AllTasks) :
          /\ ~AllTasks[i].isFinal
          /\ AllTasks[i].start > 0
          /\ Cardinality(SitesOf(AllTasks, AllTasks[i].seqId, AllTasks[i].start)) = 1

(***************************************************************************)
(* C28: the task list does not depend on scheduling, and the mask files    *)
(* are found again by name.  In every stage the tasks the distributor has  *)
(* cut, the tasks in the queues and the tasks the workers hold are the     *)
(* tasks of the one list the files determine, each at the index its        *)
(* pieceId gives; a push appends the next task of that list to some queue  *)
(* and changes no other queue; a distributor that returns has produced the *)
(* whole list.  Within a round no two tasks of the list have the same mask *)
(* file name, the files that exist bear names of tasks of the list, and    *)
(* the mask a worker of Pass 2 or of Emission holds for a chunk is the     *)
(* content of the files of that chunk, which Pass 1b left under these      *)
(* names and which no step of the two later stages changes.                *)
(***************************************************************************)
\* the workers that hold a task between two steps
HoldsTask(w) == worker[w].pc \in {"final", "loop", "wantstub", "stublocked"}

\* the mask file names of the tasks of a list in round r
TaskNames(all, r) ==
    {CandidateMaskFileName(all[i].seqId, all[i].start, r) : i \in 1..Len(all)}

C28_SameTaskList ==
    Running =>
        LET all == AllTasks
        IN  /\ dist.piece <= Len(all)
            /\ \A i \in 1..Len(dist.pend) : dist.pend[i] = all[Pushed + i]
            /\ \A t \in Queued : t.piece < Pushed /\ t = all[t.piece + 1]
            /\ \A w \in Workers :
                  HoldsTask(w) => /\ worker[w].task.piece < Pushed
                                  /\ worker[w].task = all[worker[w].task.piece + 1]
            /\ dist.pc \in {"gameover", "done"} => dist.piece = Len(all)

C28_MaskFoundByName ==
    /\ dist = StartDist =>
          LET all == AllTasks
          IN  /\ \A r \in 0..(rounds - 1) : \A i, j \in 1..Len(all) :
                    i # j => CandidateMaskFileName(all[i].seqId, all[i].start, r)
                                 # CandidateMaskFileName(all[j].seqId, all[j].start, r)
              /\ DOMAIN maskFile \subseteq UNION {TaskNames(all, r) : r \in 0..(rounds - 1)}
    /\ \A w \in Workers :
          /\ (stage = "final" /\ HoldsTask(w) /\ tmpFault # "final")
                => worker[w].mask = MaskOf(worker[w].task)
          /\ (stage = "edges" /\ HoldsTask(w) /\ tmpFault # "edges")
                => worker[w].mask =
                       UNION {ReadMask(CandidateMaskFileName(worker[w].task.seqId,
                                                             worker[w].task.start, r)) :
                                  r \in 0..(rounds - 1)}

\* a push puts the next task of the list at the end of one queue, and from
\* the join of Pass 1b on the mask files stay as they are
C28_PushStep ==
    /\ (Running /\ taskQueue' # taskQueue /\ dist'.piece - Len(dist'.pend) = Pushed + 1)
          => \E q \in Workers :
                /\ taskQueue'[q] = Append(taskQueue[q], AllTasks[Pushed + 1])
                /\ \A o \in Workers \ {q} : taskQueue'[o] = taskQueue[o]
    /\ (stage \in {"check", "final", "edges"} /\ stage' \in {"final", "edges"})
          => maskFile' = maskFile

C28_TaskListIndependent ==
    [](C28_SameTaskList /\ C28_MaskFoundByName) /\ [][C28_PushStep]_vars

\* two workers are in Pass 2, each holding a chunk of the same record with the
\* mask of that chunk, and the two masks differ
C28_Witness ==
    /\ stage = "final"
    /\ \E v, w \in Workers :
          /\ v # w
          /\ HoldsTask(v) /\ HoldsTask(w)
          /\ worker[v].task.seqId = worker[w].task.seqId
          /\ worker[v].task.start # worker[w].task.start
          /\ worker[v].mask # worker[w].mask
          /\ worker[v].mask = MaskOf(worker[v].task)
          /\ worker[w].mask = MaskOf(worker[w].task)

(***************************************************************************)
(* C29: the error mutex is never left held.  Every lock of errorMutex, in  *)
(* ReportError and at the head of the record loop of DistributeTasks, is   *)
(* followed by its unlock before the locking thread does anything else, so *)
(* between any two steps the mutex is free.                                *)
(***************************************************************************)
C29_ErrorMutexReleased == errorMutex = FALSE

(***************************************************************************)
(* C30: with more than one round, the index of the read of                 *)
(* binCounter[lowBoundary] at the head of a round is inside the array:     *)
(* as long as a round is still to start, lowBoundary is smaller than       *)
(* BINS_COUNT, whatever the histogram holds.                               *)
(***************************************************************************)
C30_BoundaryInsideBins ==
    (rounds > 1 /\ Len(ranges) < rounds /\ stage # "failed") => lowBoundary < BINS_COUNT

====
